---- MODULE Spec2Model ----
(***************************************************************************)
(* Model of src/main.py: the interactive extractor.  One run of the        *)
(* program is a linear sequence of prompts, a fetch, a parse, one of four  *)
(* extractors and a save, wrapped by the top-level try/except.             *)
(*                                                                         *)
(* Text typed by the user is a sequence of one-character strings, so that  *)
(* strip(), lower(), split(","), isdigit() and int() are computed as       *)
(* Python computes them.  The character "^2" stands for U+00B2             *)
(* (SUPERSCRIPT TWO), for which str.isdigit() is True and int() raises.    *)
(***************************************************************************)
EXTENDS Integers, Sequences, FiniteSets, TLC

\* ------------------------------------------------------------ bounds
\* largest number of tables pd.read_html returns for a page
MaxTables == 3
\* largest number of elements in a parsed document
MaxElems == 2

\* ------------------------------------------------------------ text
PyNone == "<None>"

UpperChars == <<"A", "B", "C", "D", "E", "F", "G", "H", "I", "J", "K", "L", "M",
                "N", "O", "P", "Q", "R", "S", "T", "U", "V", "W", "X", "Y", "Z">>

LowerChars == <<"a", "b", "c", "d", "e", "f", "g", "h", "i", "j", "k", "l", "m",
                "n", "o", "p", "q", "r", "s", "t", "u", "v", "w", "x", "y", "z">>

\* str.lower() on one character
LowerChar(c) ==
    IF \E i \in 1..26 : UpperChars[i] = c
    THEN LowerChars[CHOOSE i \in 1..26 : UpperChars[i] = c]
    ELSE c

\* str.lower()
Lower(s) == [i \in 1..Len(s) |-> LowerChar(s[i])]

IsSpace(c) == c \in {" ", "\t"}

RECURSIVE LStrip(_)
LStrip(s) == IF s # <<>> /\ IsSpace(Head(s)) THEN LStrip(Tail(s)) ELSE s

RECURSIVE RStrip(_)
RStrip(s) ==
    IF s # <<>> /\ IsSpace(s[Len(s)]) THEN RStrip(SubSeq(s, 1, Len(s) - 1)) ELSE s

\* str.strip()
Strip(s) == RStrip(LStrip(s))

\* str.split(sep): the pieces between the occurrences of sep, empty ones kept
RECURSIVE Split(_, _)
Split(s, sep) ==
    IF \E i \in 1..Len(s) : s[i] = sep
    THEN LET i == CHOOSE k \in 1..Len(s) :
                      s[k] = sep /\ \A j \in 1..(k - 1) : s[j] # sep
         IN  <<SubSeq(s, 1, i - 1)>> \o Split(SubSeq(s, i + 1, Len(s)), sep)
    ELSE <<s>>

AsciiDigits == <<"0", "1", "2", "3", "4", "5", "6", "7", "8", "9">>

IsAsciiDigit(c) == \E i \in 1..10 : AsciiDigits[i] = c

\* characters with the Unicode property Numeric_Type=Digit
IsDigitChar(c) == IsAsciiDigit(c) \/ c = "^2"

\* str.isdigit(): non-empty and every character is a digit
IsDigit(s) == s # <<>> /\ \A i \in 1..Len(s) : IsDigitChar(s[i])

DigitVal(c) == (CHOOSE i \in 1..10 : AsciiDigits[i] = c) - 1

\* int(x) accepts surrounding white space and decimal digits only
IntParses(x) ==
    LET t == Strip(x) IN t # <<>> /\ \A i \in 1..Len(t) : IsAsciiDigit(t[i])

RECURSIVE DecValue(_)
DecValue(t) ==
    IF t = <<>> THEN 0
    ELSE 10 * DecValue(SubSeq(t, 1, Len(t) - 1)) + DigitVal(t[Len(t)])

\* int(x), defined when IntParses(x)
PyInt(x) == DecValue(Strip(x))

\* the position of the last occurrence of c in s, 0 when there is none
RFind(s, c) ==
    IF \E i \in 1..Len(s) : s[i] = c
    THEN CHOOSE i \in 1..Len(s) : s[i] = c /\ \A j \in (i + 1)..Len(s) : s[j] # c
    ELSE 0

\* PurePath.name: the final path component
PathName(s) == SubSeq(s, RFind(s, "/") + 1, Len(s))

\* PurePath.stem: the final component without its last suffix
Stem(s) ==
    LET name == PathName(s)
        i == RFind(name, ".")
    IN  IF 1 < i /\ i < Len(name) THEN SubSeq(name, 1, i - 1) ELSE name

\* ------------------------------------------------------------ pages
\* the elements a fetched document is made of: tag, text nodes, href attribute
Elements ==
    { [tag |-> "a", strings |-> <<"Home">>, href |-> "/home"],
      [tag |-> "a", strings |-> <<"No", "link">>, href |-> PyNone],
      [tag |-> "p", strings |-> <<"Hello", "world">>, href |-> PyNone] }

Docs == UNION { [1..k -> Elements] : k \in 0..MaxElems }

\* a fetched page: how many <table> elements hold data, whether there are
\* <table> elements without any data, and the other elements in document order
Pages ==
    { [ntables |-> n, emptyTables |-> FALSE, elems |-> <<>>] : n \in 0..MaxTables }
    \cup { [ntables |-> 0, emptyTables |-> TRUE, elems |-> <<>>] }
    \cup { [ntables |-> 0, emptyTables |-> FALSE, elems |-> d] : d \in Docs }
    \cup { [ntables |-> 1, emptyTables |-> FALSE, elems |-> d] : d \in [1..1 -> Elements] }

\* the value of html before a fetch has returned
NoHtml == [ntables |-> -1, emptyTables |-> FALSE, elems |-> <<>>]

\* the DataFrame read from the table with index i: rows <<i, 1>>, <<i, 2>>, ...
RowsIn(i) == (i % 2) + 1

TableFrame(i) == [r \in 1..RowsIn(i) |-> <<i, r>>]

\* ------------------------------------------------------------ inputs
UrlInputs == { <<"u">>, <<>> }

WhatInputs == { <<"1">>, <<"2">>, <<"3">>, <<"4">>, <<" ", "1">>, <<"5">>, <<>> }

JsInputs ==
    { <<"e">>, <<"E">>, <<" ", "e", " ">>, <<"h">>, <<>>, <<"e", "v", "e", "t">>,
      <<"y">> }

SelInputs ==
    { <<>>, <<" ">>,
      <<"a", "l", "l">>, <<"A", "L", "L">>, <<" ", "A", "l", "l", " ">>,
      <<"0">>, <<"0", ",", "2">>, <<"2", ",", "0">>, <<"1", ",", "1">>,
      <<"5">>, <<"x">>, <<"-", "1">>, <<"x", ",", "9">>,
      <<"0", ",", "x", ",", "1">>, <<" ", "1", " ", ",", " ", "0">>,
      <<"0", ",", ",", "1">>, <<"0", "1">>, <<"1", "0">>,
      <<"a", "l", "l", ",", "0">>, <<"^2">>, <<"0", ",", "^2">> }

SelectorInputs ==
    { <<"a">>, <<"p">>, <<"d", "i", "v">>, <<"a", "[", "h", "r", "e", "f", "]">>,
      <<" ", "p", " ">>, <<"a", "[">>, <<>> }

FmtInputs ==
    { <<>>, <<"c", "s", "v">>, <<" ", "C", "S", "V">>, <<"j", "s", "o", "n">>,
      <<"J", "s", "o", "n">>, <<"x", "m", "l">> }

NameInputs ==
    { <<>>, <<"o", "u", "t">>, <<"r", "e", "p", "o", "r", "t", ".", "o", "l", "d">>,
      <<"a", ".", "b", ".", "c">>, <<".", "e", "n", "v">>, <<"d", "/", "x", ".", "y">>,
      <<" ", "o", "u", "t", " ">> }

\* ------------------------------------------------------------ state
VARIABLES
    pc,          \* the statement of main() the run is at, "done" once the process ended
    lxml,        \* whether the lxml package can be imported
    html5lib,    \* whether the html5lib package can be imported
    url,         \* main: url
    what,        \* main: what
    jsIn,        \* the text typed at the render prompt
    js,          \* main: js
    fetches,     \* the fetch functions called so far, in order
    browser,     \* the Chrome session of fetch_dynamic_html: "none", "running", "quit"
    html,        \* main: html
    soup,        \* main: soup, the elements of the parsed document
    dfs,         \* the argument of choose_tables
    selIn,       \* the text typed at the table prompt
    selector,    \* main: selector
    df,          \* main: df
    fmt,         \* main: fmt
    name,        \* main: name
    files,       \* the files written, in order
    printed,     \* the status lines printed, in order
    raised,      \* the exception that ended main(), "none" if none
    raisedAt,    \* the value of pc when it was raised
    exitStatus   \* the exit status of the process, -1 while it runs

vars ==
    <<pc, lxml, html5lib, url, what, jsIn, js, fetches, browser, html, soup, dfs,
      selIn, selector, df, fmt, name, files, printed, raised, raisedAt, exitStatus>>

Unset == <<"<unset>">>

Init ==
    /\ pc = "ask_url"
    /\ lxml \in BOOLEAN
    /\ html5lib \in BOOLEAN
    /\ url = Unset
    /\ what = Unset
    /\ jsIn = Unset
    /\ js = FALSE
    /\ fetches = <<>>
    /\ browser = "none"
    /\ html = NoHtml
    /\ soup = <<>>
    /\ dfs = <<>>
    /\ selIn = Unset
    /\ selector = Unset
    /\ df = <<>>
    /\ fmt = Unset
    /\ name = Unset
    /\ files = <<>>
    /\ printed = <<>>
    /\ raised = "none"
    /\ raisedAt = "none"
    /\ exitStatus = -1

\* ------------------------------------------------------------ top level
\* the try/except around main(): SystemExit passes through with its code,
\* KeyboardInterrupt and Exception are printed and the script runs off its end
TopLevel(exc, out) ==
    /\ pc' = "done"
    /\ raised' = exc
    /\ raisedAt' = pc
    /\ printed' = CASE exc = "SystemExit" -> out
                    [] exc = "KeyboardInterrupt" -> Append(out, "cancelled")
                    [] OTHER -> Append(out, "error")
    /\ exitStatus' = IF exc = "SystemExit" THEN 1 ELSE 0

\* ------------------------------------------------------------ prompts
InputUrl ==
    /\ pc = "ask_url"
    /\ \E raw \in UrlInputs : url' = Strip(raw)
    /\ pc' = "ask_what"
    /\ UNCHANGED <<lxml, html5lib, what, jsIn, js, fetches, browser, html, soup, dfs,
                   selIn, selector, df, fmt, name, files, printed, raised, raisedAt,
                   exitStatus>>

InputWhat ==
    /\ pc = "ask_what"
    /\ \E raw \in WhatInputs : what' = Strip(raw)
    /\ pc' = "ask_js"
    /\ UNCHANGED <<lxml, html5lib, url, jsIn, js, fetches, browser, html, soup, dfs,
                   selIn, selector, df, fmt, name, files, printed, raised, raisedAt,
                   exitStatus>>

\* the comparison of line 120 without .lower()
IsAffirmative_mut(raw) == Strip(raw) = <<"e">>

\* the comparison of line 120
IsAffirmative(raw) == Lower(Strip(raw)) = <<"e">>

InputJs ==
    /\ pc = "ask_js"
    /\ \E raw \in JsInputs :
          /\ jsIn' = raw
          /\ js' = IsAffirmative(raw)
    /\ pc' = "fetch"
    /\ UNCHANGED <<lxml, html5lib, url, what, fetches, browser, html, soup, dfs,
                   selIn, selector, df, fmt, name, files, printed, raised, raisedAt,
                   exitStatus>>

\* the program waits at one of its prompts
Waiting ==
    \/ pc \in {"ask_url", "ask_what", "ask_js", "choose", "ask_fmt", "ask_name"}
    \/ pc = "extract" /\ what = <<"4">>

\* Ctrl-C at a prompt
Interrupt ==
    /\ Waiting
    /\ TopLevel("KeyboardInterrupt", printed)
    /\ UNCHANGED <<lxml, html5lib, url, what, jsIn, js, fetches, browser, html, soup,
                   dfs, selIn, selector, df, fmt, name, files>>

\* ------------------------------------------------------------ fetch
\* fetch_static_html without raise_for_status: a failed request does not
\* end the run
FetchStatic_mut ==
    /\ pc = "fetch"
    /\ ~js
    /\ fetches' = Append(fetches, "static")
    /\ \/ /\ \/ \E page \in Pages : html' = page
             \/ UNCHANGED html
          /\ pc' = "parse"
          /\ UNCHANGED <<printed, raised, raisedAt, exitStatus>>
       \/ /\ TopLevel("KeyboardInterrupt", printed)
          /\ UNCHANGED html
    /\ UNCHANGED <<lxml, html5lib, url, what, jsIn, js, browser, soup, dfs, selIn,
                   selector, df, fmt, name, files>>

FetchStatic ==
    /\ pc = "fetch"
    /\ ~js
    /\ fetches' = Append(fetches, "static")
    /\ \/ \E page \in Pages :
             /\ html' = page
             /\ pc' = "parse"
             /\ UNCHANGED <<printed, raised, raisedAt, exitStatus>>
       \/ \E exc \in {"RequestException", "KeyboardInterrupt"} :
             /\ TopLevel(exc, printed)
             /\ UNCHANGED html
    /\ UNCHANGED <<lxml, html5lib, url, what, jsIn, js, browser, soup, dfs, selIn,
                   selector, df, fmt, name, files>>

\* where fetch_dynamic_html can stop: Chrome cannot be installed or started,
\* driver.get raises, Ctrl-C during time.sleep, page_source raises, or none
DynamicOutcomes == {"launch_error", "get_error", "sleep_interrupt", "source_error", "ok"}

\* the session after fetch_dynamic_html: driver.quit() is the statement after
\* driver.page_source and runs only when the three before it returned
BrowserAfter(outcome) ==
    CASE outcome = "launch_error" -> "none"
      [] outcome = "ok" -> "quit"
      [] OTHER -> "running"

FetchDynamic ==
    /\ pc = "fetch"
    /\ js
    /\ fetches' = Append(fetches, "dynamic")
    /\ \E outcome \in DynamicOutcomes :
          /\ browser' = BrowserAfter(outcome)
          /\ IF outcome = "ok"
             THEN /\ \E page \in Pages : html' = page
                  /\ pc' = "parse"
                  /\ UNCHANGED <<printed, raised, raisedAt, exitStatus>>
             ELSE /\ TopLevel(IF outcome = "sleep_interrupt"
                              THEN "KeyboardInterrupt"
                              ELSE "WebDriverException", printed)
                  /\ UNCHANGED html
    /\ UNCHANGED <<lxml, html5lib, url, what, jsIn, js, soup, dfs, selIn, selector,
                   df, fmt, name, files>>

\* BeautifulSoup(html, "lxml"): the tree builder must be installed
Parse ==
    /\ pc = "parse"
    /\ IF lxml
       THEN /\ soup' = html.elems
            /\ pc' = "extract"
            /\ UNCHANGED <<printed, raised, raisedAt, exitStatus>>
       ELSE /\ TopLevel("FeatureNotFound", printed)
            /\ UNCHANGED soup
    /\ UNCHANGED <<lxml, html5lib, url, what, jsIn, js, fetches, browser, html, dfs,
                   selIn, selector, df, fmt, name, files>>

\* ------------------------------------------------------------ tables
\* pd.read_html: ValueError("No tables found") when the document has no
\* <table>; a <table> without data is skipped, the others become one frame each
read_html(h) ==
    IF h.ntables = 0 /\ ~h.emptyTables
    THEN [exc |-> "ValueError", frames |-> <<>>]
    ELSE [exc |-> "none", frames |-> [i \in 1..h.ntables |-> TableFrame(i - 1)]]

safe_read_html(h) ==
    IF ~lxml /\ ~html5lib
    THEN [exc |-> "ImportError", frames |-> <<>>]
    ELSE read_html(h)

extract_tables(h) == safe_read_html(h)

\* the rows of the frames, one frame after the other
RECURSIVE StackRows(_)
StackRows(frames) ==
    IF frames = <<>> THEN <<>> ELSE Head(frames) \o StackRows(Tail(frames))

\* pd.concat(objs, ignore_index=True): ValueError("No objects to concatenate")
\* for an empty list
concat(frames) ==
    IF frames = <<>>
    THEN [exc |-> "ValueError", frame |-> <<>>]
    ELSE [exc |-> "none", frame |-> StackRows(frames)]

\* lines 73-79 of choose_tables, for the text typed at its prompt
select_tables(frames, raw) ==
    LET sel == Strip(raw)
        IsNumber(x) == IsDigit(Strip(x))
        InRange(i) == i < Len(frames)
        tokens == SelectSeq(Split(sel, ","), IsNumber)
        idxs == [k \in 1..Len(tokens) |-> PyInt(tokens[k])]
        kept == SelectSeq(idxs, InRange)
    IN  IF sel = <<>> THEN concat(<<frames[1]>>)
        ELSE IF Lower(sel) = <<"a", "l", "l">> THEN concat(frames)
        ELSE IF \E k \in 1..Len(tokens) : ~IntParses(tokens[k])
             THEN [exc |-> "ValueError", frame |-> <<>>]
        ELSE concat([k \in 1..Len(kept) |-> frames[kept[k] + 1]])

\* line 125 up to the prompt of choose_tables
ExtractTables ==
    /\ pc = "extract"
    /\ what = <<"1">>
    /\ LET r == extract_tables(html)
       IN  IF r.exc # "none"
           THEN /\ TopLevel(r.exc, printed)
                /\ UNCHANGED dfs
           ELSE IF r.frames = <<>>
           THEN /\ TopLevel("SystemExit", Append(printed, "no_tables"))
                /\ UNCHANGED dfs
           ELSE /\ dfs' = r.frames
                /\ printed' = Append(printed, "preview")
                /\ pc' = "choose"
                /\ UNCHANGED <<raised, raisedAt, exitStatus>>
    /\ UNCHANGED <<lxml, html5lib, url, what, jsIn, js, fetches, browser, html, soup,
                   selIn, selector, df, fmt, name, files>>

\* the prompt of choose_tables and its result
ChooseTables ==
    /\ pc = "choose"
    /\ \E raw \in SelInputs :
          /\ selIn' = raw
          /\ LET r == select_tables(dfs, raw)
             IN  IF r.exc # "none"
                 THEN /\ TopLevel(r.exc, printed)
                      /\ UNCHANGED df
                 ELSE /\ df' = r.frame
                      /\ pc' = "ask_fmt"
                      /\ UNCHANGED <<printed, raised, raisedAt, exitStatus>>
    /\ UNCHANGED <<lxml, html5lib, url, what, jsIn, js, fetches, browser, html, soup,
                   dfs, selector, fmt, name, files>>

\* ------------------------------------------------------------ records
\* Tag.get_text(separator, strip=True): the stripped text nodes joined
RECURSIVE get_text(_, _)
get_text(strings, sep) ==
    IF strings = <<>> THEN ""
    ELSE IF Len(strings) = 1 THEN strings[1]
    ELSE strings[1] \o sep \o get_text(Tail(strings), sep)

\* soup.find_all(tag)
find_all(tree, tag) == LET Keep(e) == e.tag = tag IN SelectSeq(tree, Keep)

\* extract_links that keeps only the anchors with an href attribute
extract_links_mut(tree) ==
    LET HasTarget(e) == e.href # PyNone
        found == SelectSeq(find_all(tree, "a"), HasTarget)
    IN  [k \in 1..Len(found) |->
            [text |-> get_text(found[k].strings, ""), href |-> found[k].href]]

extract_links(tree) ==
    LET found == find_all(tree, "a")
    IN  [k \in 1..Len(found) |->
            [text |-> get_text(found[k].strings, ""), href |-> found[k].href]]

extract_paragraphs(tree) ==
    LET found == find_all(tree, "p")
    IN  [k \in 1..Len(found) |-> [paragraph |-> get_text(found[k].strings, " ")]]

IsLetter(c) == \E i \in 1..26 : LowerChars[i] = c \/ UpperChars[i] = c

HasHref == <<"a", "[", "h", "r", "e", "f", "]">>

\* the selectors soupsieve compiles: here a tag name, or a[href]
ValidSelector(sel) ==
    \/ sel # <<>> /\ \A i \in 1..Len(sel) : IsLetter(sel[i])
    \/ sel = HasHref

\* whether element e matches a valid selector
Matches(e, sel) ==
    IF sel = HasHref THEN e.tag = "a" /\ e.href # PyNone
    ELSE <<e.tag>> = Lower(sel)

\* soup.select(selector): SelectorSyntaxError for what does not compile
select(tree, sel) ==
    LET Keep(e) == Matches(e, sel)
    IN  IF ValidSelector(sel)
        THEN [exc |-> "none", elems |-> SelectSeq(tree, Keep)]
        ELSE [exc |-> "SelectorSyntaxError", elems |-> <<>>]

extract_by_css(tree, sel) ==
    LET r == select(tree, sel)
    IN  [exc |-> r.exc,
         frame |-> [k \in 1..Len(r.elems) |->
                      [selector |-> sel, text |-> get_text(r.elems[k].strings, " ")]]]

ExtractLinks ==
    /\ pc = "extract"
    /\ what = <<"2">>
    /\ df' = extract_links(soup)
    /\ pc' = "ask_fmt"
    /\ UNCHANGED <<lxml, html5lib, url, what, jsIn, js, fetches, browser, html, soup,
                   dfs, selIn, selector, fmt, name, files, printed, raised, raisedAt,
                   exitStatus>>

ExtractParagraphs ==
    /\ pc = "extract"
    /\ what = <<"3">>
    /\ df' = extract_paragraphs(soup)
    /\ pc' = "ask_fmt"
    /\ UNCHANGED <<lxml, html5lib, url, what, jsIn, js, fetches, browser, html, soup,
                   dfs, selIn, selector, fmt, name, files, printed, raised, raisedAt,
                   exitStatus>>

\* lines 131-132: the selector prompt and extract_by_css
ExtractByCss ==
    /\ pc = "extract"
    /\ what = <<"4">>
    /\ \E raw \in SelectorInputs :
          /\ selector' = Strip(raw)
          /\ LET r == extract_by_css(soup, Strip(raw))
             IN  IF r.exc # "none"
                 THEN /\ TopLevel(r.exc, printed)
                      /\ UNCHANGED df
                 ELSE /\ df' = r.frame
                      /\ pc' = "ask_fmt"
                      /\ UNCHANGED <<printed, raised, raisedAt, exitStatus>>
    /\ UNCHANGED <<lxml, html5lib, url, what, jsIn, js, fetches, browser, html, soup,
                   dfs, selIn, fmt, name, files>>

\* lines 133-135
InvalidChoice ==
    /\ pc = "extract"
    /\ what \notin {<<"1">>, <<"2">>, <<"3">>, <<"4">>}
    /\ TopLevel("SystemExit", Append(printed, "invalid_choice"))
    /\ UNCHANGED <<lxml, html5lib, url, what, jsIn, js, fetches, browser, html, soup,
                   dfs, selIn, selector, df, fmt, name, files>>

\* ------------------------------------------------------------ save
Csv == <<"c", "s", "v">>

InputFmt ==
    /\ pc = "ask_fmt"
    /\ \E raw \in FmtInputs :
          fmt' = IF Lower(Strip(raw)) = <<>> THEN Csv ELSE Lower(Strip(raw))
    /\ pc' = "ask_name"
    /\ UNCHANGED <<lxml, html5lib, url, what, jsIn, js, fetches, browser, html, soup,
                   dfs, selIn, selector, df, name, files, printed, raised, raisedAt,
                   exitStatus>>

Extracted == <<"e", "x", "t", "r", "a", "c", "t", "e", "d">>

InputName ==
    /\ pc = "ask_name"
    /\ \E raw \in NameInputs :
          name' = IF Strip(raw) = <<>> THEN Extracted ELSE Strip(raw)
    /\ pc' = "save"
    /\ UNCHANGED <<lxml, html5lib, url, what, jsIn, js, fetches, browser, html, soup,
                   dfs, selIn, selector, df, fmt, files, printed, raised, raisedAt,
                   exitStatus>>

\* save_df: the file it writes
save_df(frame, format, base_name) ==
    [name |-> Stem(base_name) \o <<".">> \o format,
     writer |-> IF format = Csv THEN "to_csv" ELSE "to_json",
     rows |-> frame]

\* line 139, after which main() returns and the script ends
SaveDf ==
    /\ pc = "save"
    /\ files' = Append(files, save_df(df, fmt, name))
    /\ printed' = Append(printed, "saved")
    /\ pc' = "done"
    /\ exitStatus' = 0
    /\ UNCHANGED <<lxml, html5lib, url, what, jsIn, js, fetches, browser, html, soup,
                   dfs, selIn, selector, df, fmt, name, raised, raisedAt>>

Next ==
    \/ InputUrl
    \/ InputWhat
    \/ InputJs
    \/ Interrupt
    \/ FetchStatic
    \/ FetchDynamic
    \/ Parse
    \/ ExtractTables
    \/ ChooseTables
    \/ ExtractLinks
    \/ ExtractParagraphs
    \/ ExtractByCss
    \/ InvalidChoice
    \/ InputFmt
    \/ InputName
    \/ SaveDf

Spec == Init /\ [][Next]_vars

\* ------------------------------------------------------------ properties
Range(seq) == { seq[i] : i \in 1..Len(seq) }

\* main() has got past its dispatch (lines 124-135) or ended inside it
Dispatched ==
    \/ pc \in {"choose", "ask_fmt", "ask_name", "save"}
    \/ /\ pc = "done"
       /\ raisedAt \notin {"ask_url", "ask_what", "ask_js", "fetch", "parse"}
       /\ ~(raisedAt = "extract" /\ raised = "KeyboardInterrupt")

\* main() has a ResultSet in df
HasResult ==
    \/ pc \in {"ask_fmt", "ask_name", "save"}
    \/ pc = "done" /\ raisedAt \in {"none", "ask_fmt", "ask_name"}

\* C1: after fetch_dynamic_html has returned or raised, no browser session
\* is running
C1_BrowserTerminated == "dynamic" \in Range(fetches) => browser # "running"

\* C2: the exit status is 0 exactly when the run saved its file or was
\* interrupted, 1 on "no tables found" and on an invalid choice, and nonzero
\* for every other exception caught at the top level
C2_ExitStatus ==
    pc = "done" =>
        /\ exitStatus = 0 <=> (files # <<>> \/ raised = "KeyboardInterrupt")
        /\ "no_tables" \in Range(printed) => exitStatus = 1
        /\ "invalid_choice" \in Range(printed) => exitStatus = 1
        /\ raised \notin {"none", "SystemExit", "KeyboardInterrupt"} => exitStatus # 0

\* C3: in TABLES mode a page in which the table parser finds no table ends
\* the run with the "no tables" message and exit status 1, through the
\* emptiness check of choose_tables, and no file is written
C3_NoTablesTerminal ==
    (what = <<"1">> /\ html.ntables = 0 /\ Dispatched) =>
        /\ pc = "done"
        /\ raised = "SystemExit"
        /\ "no_tables" \in Range(printed)
        /\ exitStatus = 1
        /\ fmt = Unset /\ name = Unset
        /\ files = <<>>

\* the tables the selection text stands for: table 0 for the empty text,
\* all for "all", else the decimal tokens below the table count, as typed
ClaimedChoice(frames, raw) ==
    LET sel == Strip(raw)
        IsIndex(x) == IntParses(x) /\ PyInt(x) < Len(frames)
        tokens == SelectSeq(Split(sel, ","), IsIndex)
    IN  IF sel = <<>> THEN <<frames[1]>>
        ELSE IF Lower(sel) = <<"a", "l", "l">> THEN frames
        ELSE [k \in 1..Len(tokens) |-> frames[PyInt(tokens[k]) + 1]]

\* C4: for every selection text choose_tables returns the rows of the
\* tables the text stands for, in that order
C4_ChooseTables ==
    selIn # Unset =>
        /\ raisedAt # "choose"
        /\ df = StackRows(ClaimedChoice(dfs, selIn))

\* a selection text that is not empty, not "all" and names no table
NoValidIndex(frames, raw) ==
    /\ Strip(raw) # <<>>
    /\ Lower(Strip(raw)) # <<"a", "l", "l">>
    /\ "^2" \notin Range(raw)
    /\ ClaimedChoice(frames, raw) = <<>>

\* C5: a selection text without any valid index gives an empty table, not
\* a failure, and the run goes on to the format prompt
C5_EmptyChoice ==
    (selIn # Unset /\ NoValidIndex(dfs, selIn)) =>
        /\ raisedAt # "choose"
        /\ df = <<>>
        /\ HasResult

\* C6: the writer is reached with one file written, named after the stem of
\* the base name, with ".csv" and the CSV writer when the format is csv (or
\* was left empty) and ".json" and the JSON writer otherwise
C6_FileName ==
    (pc = "done" /\ raised = "none") =>
        /\ Len(files) = 1
        /\ files[1].name =
              Stem(name) \o <<".">>
                 \o (IF fmt = Csv THEN Csv ELSE <<"j", "s", "o", "n">>)
        /\ files[1].writer = IF fmt = Csv THEN "to_csv" ELSE "to_json"

\* C7: in CSS_SELECTOR mode a selector that is invalid or matches nothing
\* gives an empty ResultSet and the run goes on to write its file and exit 0
C7_CssEmptyIsSuccess ==
    ( /\ what = <<"4">>
      /\ selector # Unset
      /\ \/ ~ValidSelector(selector)
         \/ \A i \in 1..Len(soup) : ~Matches(soup[i], selector) ) =>
        /\ raisedAt # "extract"
        /\ df = <<>>
        /\ HasResult
        /\ (pc = "done" /\ raised = "none") => (Len(files) = 1 /\ exitStatus = 0)

\* the k-th smallest member of a set of positions
NthPos(S, k) == CHOOSE p \in S : Cardinality({ q \in S : q <= p }) = k

\* C8: in LINKS, PARAGRAPHS and CSS_SELECTOR mode the ResultSet has one
\* record per matched element, in document order, with the fields of the mode,
\* and in CSS_SELECTOR mode every record carries the selector typed
C8_OneRecordPerElement ==
    HasResult =>
        /\ what = <<"2">> =>
              LET S == { i \in 1..Len(soup) : soup[i].tag = "a" }
              IN  /\ Len(df) = Cardinality(S)
                  /\ \A k \in 1..Len(df) :
                        /\ DOMAIN df[k] = {"text", "href"}
                        /\ df[k].href = soup[NthPos(S, k)].href
                        /\ df[k].text = get_text(soup[NthPos(S, k)].strings, "")
        /\ what = <<"3">> =>
              LET S == { i \in 1..Len(soup) : soup[i].tag = "p" }
              IN  /\ Len(df) = Cardinality(S)
                  /\ \A k \in 1..Len(df) :
                        /\ DOMAIN df[k] = {"paragraph"}
                        /\ df[k].paragraph = get_text(soup[NthPos(S, k)].strings, " ")
        /\ what = <<"4">> =>
              LET S == { i \in 1..Len(soup) : Matches(soup[i], selector) }
              IN  /\ Len(df) = Cardinality(S)
                  /\ \A k \in 1..Len(df) :
                        /\ DOMAIN df[k] = {"selector", "text"}
                        /\ df[k].selector = selector
                        /\ df[k].text = get_text(soup[NthPos(S, k)].strings, " ")

C8_Witness ==
    /\ pc = "ask_fmt"
    /\ what = <<"4">>
    /\ selector = HasHref
    /\ Len(soup) = 2
    /\ Len(df) = 1
    /\ soup[1].href = PyNone

\* the render answers whose only characters besides white space are one e or E
SaysYes(raw) ==
    LET IsText(c) == ~IsSpace(c) IN SelectSeq(raw, IsText) \in {<<"e">>, <<"E">>}

\* C9: a run calls one fetch function, once: the dynamic one iff the render
\* answer, trimmed and lowercased, is "e", the static one otherwise; no fetch
\* follows a failed fetch
C9_OneFetch ==
    /\ Len(fetches) <= 1
    /\ fetches # <<>> => jsIn # Unset /\ (fetches[1] = "dynamic" <=> SaysYes(jsIn))
    /\ (pc \in {"parse", "extract"} \/ Dispatched) => Len(fetches) = 1
    /\ (pc = "done" /\ raisedAt = "fetch") => Len(fetches) = 1

C9_Witness ==
    /\ pc = "parse"
    /\ jsIn = <<"E">>
    /\ fetches = <<"dynamic">>

\* the position of a statement in the linear order of main()
Rank(p) ==
    CASE p = "ask_url" -> 1
      [] p = "ask_what" -> 2
      [] p = "ask_js" -> 3
      [] p = "fetch" -> 4
      [] p = "parse" -> 5
      [] p = "extract" -> 6
      [] p = "choose" -> 7
      [] p = "ask_fmt" -> 8
      [] p = "ask_name" -> 9
      [] p = "save" -> 10
      [] p = "done" -> 11
      [] OTHER -> 0

\* the fetch of line 121 has returned
FetchReturned ==
    \/ pc # "done" /\ Rank(pc) > 4
    \/ pc = "done" /\ (raisedAt = "none" \/ Rank(raisedAt) > 4)

====
